---- MODULE Spec2Model ----
(***************************************************************************)
(* Model of dlrover/python/master/diagnosis/diagnosis.py:                  *)
(*   - DiagnosisDataManager: the per-type event store (store_data,         *)
(*     get_data, _clean_diagnosis_data, has_expired), with its lock and    *)
(*     several producer threads;                                           *)
(*   - DiagnosisManager / Diagnostician: the observing flag, the seed      *)
(*     registration and the _diagnose_failures background threads;         *)
(* and of dlrover/python/master/master.py: Master.run, stop, request_stop. *)
(* Spec        is the data store under concurrent producers.               *)
(* SpecMgr     is the manager's start/stop life cycle and its loops.       *)
(* SpecSnap    is the store with callers keeping the lists of get_data.    *)
(* SpecMgrFull is the manager with all its calls.                          *)
(* SpecMaster  is Master.run next to a thread calling request_stop.        *)
(***************************************************************************)
EXTENDS Integers, Sequences, FiniteSets, TLC

VARIABLES
    data,       \* DiagnosisDataManager._diagnosis_data: data_type -> deque
    now,        \* the wall clock read by datetime.now()
    lock,       \* holder of DiagnosisDataManager._lock, or NoHolder
    pc,         \* position of each producer thread inside store_data
    pending,    \* the DiagnosisData each producer is storing
    history,    \* data_type -> every event appended, in lock order
    overflowed, \* ids of the events discarded by deque(maxlen) on append
    last,       \* the last completed store_data / get_data call
    is_observing_started, \* DiagnosisManager._is_observing_started
    training_problems,    \* Diagnostician._training_problems
    pre_checks,           \* Diagnostician._pre_checks
    loop,       \* per spawned thread: position inside _diagnose_failures
    observed_problems,    \* per thread: problems still to be diagnosed
    root_causes,          \* per thread: last value of diagnose_failure()
    stop_seen,  \* per thread: stop_observing() was called while it ran
    snapshot,   \* the list a caller of get_data holds on to
    mgr_call,   \* the last call made on the DiagnosisManager
    born,       \* per thread: flag and seeds in place when it was started
    master,     \* the Master object: components and exit state
    run,        \* position of Master.run and what it did on the way
    req         \* the request_stop call in progress, and how many were made

storeVars == <<data, now, lock, pc, pending, history, overflowed, last>>
mgrVars == <<is_observing_started, training_problems, pre_checks, loop,
             observed_problems, root_causes, stop_seen>>
snapVars == <<snapshot>>
callVars == <<mgr_call, born>>
vars == <<data, now, lock, pc, pending, history, overflowed, last,
          is_observing_started, training_problems, pre_checks, loop,
          observed_problems, root_causes, stop_seen, snapshot,
          mgr_call, born, master, run, req>>
masterVars == <<master, run, req>>
\* what the actions of one component leave alone
outsideStore == <<mgrVars, snapVars, callVars, masterVars>>
outsideMgr == <<storeVars, snapVars, masterVars>>
outsideLoop == <<storeVars, snapVars, callVars, masterVars>>
outsideMaster == <<storeVars, mgrVars, snapVars, callVars>>

----------------------------------------------------------------------------
(* Bounds *)

\* deque(maxlen=100000) scaled down so that overflow is reachable
MaxLen == 2
\* expire_time_period (constructor argument, 600 by default), in seconds
ExpireTimePeriod == 5
\* number of store_data calls in one behaviour
MaxStores == 4
\* number of threads start_observing may spawn in one behaviour
MaxLoops == 2
\* number of changes a caller makes to one list returned by get_data
MaxMutations == 1
\* number of collect_diagnosis_data calls in one behaviour of the manager
MaxCollects == 2
\* calls of Master.request_stop
MaxRequests == 2

DataTypes == {"a", "b"}
\* event timestamps and clock readings, in seconds; 0/5/10/11 put events
\* before, on and after the expiry boundary for a 5 s window
Timestamps == {0, 5, 10, 11}
Producers == {"p1", "p2"}
LoopIds == 1..MaxLoops

NoHolder == "none"
\* Python's None as a deque maxlen
NoMaxLen == -1

----------------------------------------------------------------------------
(* Python values *)

PyNone == [kind |-> "None"]
PyList(s) == [kind |-> "list", items |-> s]

DiagnosisData(data_type, timestamp, id) ==
    [data_type |-> data_type, timestamp |-> timestamp, id |-> id]

NoData == [data_type |-> "", timestamp |-> 0, id |-> 0]

----------------------------------------------------------------------------
(* DiagnosisDataManager: pure parts *)

has_expired_inclusive(timestamp, time_period, t) ==
    timestamp + time_period <= t

\* has_expired: expired_dt < datetime.now()
has_expired(timestamp, time_period, t) ==
    timestamp + time_period < t

\* deque(maxlen=m) / deque(iterable)
deque(items, m) == [items |-> items, maxlen |-> m]

deque_appendleft(dq, x) ==
    IF dq.maxlen # NoMaxLen /\ Len(dq.items) >= dq.maxlen
    THEN [dq EXCEPT !.items = <<x>> \o SubSeq(@, 1, Len(@) - 1)]
    ELSE [dq EXCEPT !.items = <<x>> \o @]

\* deque.append: a full bounded deque discards its leftmost item
deque_append(dq, x) ==
    IF dq.maxlen # NoMaxLen /\ Len(dq.items) >= dq.maxlen
    THEN [dq EXCEPT !.items = Append(Tail(@), x)]
    ELSE [dq EXCEPT !.items = Append(@, x)]

\* the item a full bounded deque discards on append, as a set of ids
deque_discarded(dq) ==
    IF dq.maxlen # NoMaxLen /\ Len(dq.items) >= dq.maxlen
    THEN {Head(dq.items).id}
    ELSE {}

stale_count(items, time_period, t) ==
    Cardinality({i \in 1..Len(items) :
                    has_expired(items[i].timestamp, time_period, t)})

RECURSIVE stale_prefix_len(_, _, _)
\* the for loop of _clean_diagnosis_data: n counts expired items from the
\* front and stops at the first one that has not expired
stale_prefix_len(items, time_period, t) ==
    IF items = <<>> THEN 0
    ELSE IF has_expired(Head(items).timestamp, time_period, t)
         THEN 1 + stale_prefix_len(Tail(items), time_period, t)
         ELSE 0

\* islice(each_data, n, len(each_data))
islice(items, n) == SubSeq(items, n + 1, Len(items))

\* _clean_diagnosis_data: the rebuilt deque has no maxlen
clean_diagnosis_data(d, data_type, t) ==
    IF data_type \notin DOMAIN d THEN d
    ELSE LET n == stale_prefix_len(d[data_type].items, ExpireTimePeriod, t)
         IN  IF n > 0
             THEN [d EXCEPT ![data_type] =
                      deque(islice(d[data_type].items, n), NoMaxLen)]
             ELSE d

\* store_data, lines 131-132: create the deque on the first event
ensure_key(d, data_type) ==
    IF data_type \notin DOMAIN d
    THEN [k \in DOMAIN d \cup {data_type} |->
             IF k = data_type THEN deque(<<>>, MaxLen) ELSE d[k]]
    ELSE d

get_data_setdefault(d, data_type) ==
    IF data_type \notin DOMAIN d
    THEN [ret |-> <<>>, data |-> ensure_key(d, data_type)]
    ELSE [ret |-> d[data_type].items, data |-> d]

\* get_data: the returned list and the store it leaves behind
get_data(d, data_type) ==
    IF data_type \notin DOMAIN d
    THEN [ret |-> <<>>, data |-> d]
    ELSE [ret |-> d[data_type].items, data |-> d]

can_acquire_unlocked(l) == TRUE

\* with self._lock: the lock can be taken when nobody holds it
can_acquire(l) == l = NoHolder

----------------------------------------------------------------------------
(* DiagnosisDataManager: state machine *)

NoCall == [op |-> "none", data_type |-> "", now |-> 0, event |-> NoData,
           known |-> FALSE, before |-> <<>>, appended |-> <<>>,
           query |-> <<>>, others_same |-> TRUE, partial |-> FALSE]

TotalStored ==
    LET RECURSIVE Sum(_)
        Sum(S) == IF S = {} THEN 0
                  ELSE LET k == CHOOSE k \in S : TRUE
                       IN  Len(history[k]) + Sum(S \ {k})
    IN  Sum(DataTypes)

InFlight == {p \in Producers : pc[p] # "idle"}

StoreInit ==
    /\ data = [k \in {} |-> deque(<<>>, MaxLen)]
    /\ now \in {0}
    /\ lock = NoHolder
    /\ pc = [p \in Producers |-> "idle"]
    /\ pending = [p \in Producers |-> NoData]
    /\ history = [k \in DataTypes |-> <<>>]
    /\ overflowed = {}
    /\ last = NoCall

MgrIdle ==
    /\ is_observing_started = FALSE
    /\ training_problems = <<>>
    /\ pre_checks = <<>>
    /\ loop = [i \in LoopIds |-> "unborn"]
    /\ observed_problems = [i \in LoopIds |-> <<>>]
    /\ root_causes = [i \in LoopIds |-> PyList(<<>>)]
    /\ stop_seen = [i \in LoopIds |-> FALSE]

\* time passes between calls
Tick ==
    /\ \E t \in Timestamps : t > now /\ now' = t
    /\ UNCHANGED <<data, lock, pc, pending, history, overflowed, last>>
    /\ UNCHANGED outsideStore

\* store_data, line 130: a producer enters "with self._lock"
store_acquire(p, data_type, timestamp) ==
    /\ pc[p] = "idle"
    /\ TotalStored + Cardinality(InFlight) < MaxStores
    /\ can_acquire(lock)
    /\ lock' = p
    /\ pc' = [pc EXCEPT ![p] = "append"]
    /\ pending' = [pending EXCEPT ![p] =
           DiagnosisData(data_type, timestamp,
                         TotalStored + Cardinality(InFlight) + 1)]
    /\ UNCHANGED <<data, now, history, overflowed, last>>
    /\ UNCHANGED outsideStore

\* store_data, lines 131-133: create the deque if absent, append the event
store_append(p) ==
    /\ pc[p] = "append"
    /\ LET e == pending[p]
           d1 == ensure_key(data, e.data_type)
       IN  /\ data' = [d1 EXCEPT ![e.data_type] = deque_append(@, e)]
           /\ overflowed' = overflowed \cup deque_discarded(d1[e.data_type])
           /\ history' = [history EXCEPT ![e.data_type] = Append(@, e)]
           /\ last' = [NoCall EXCEPT
                  !.op = "appending", !.data_type = e.data_type,
                  !.event = e,
                  !.known = e.data_type \in DOMAIN data,
                  !.before = IF e.data_type \in DOMAIN data
                             THEN data[e.data_type].items ELSE <<>>]
    /\ pc' = [pc EXCEPT ![p] = "clean"]
    /\ UNCHANGED <<now, lock, pending>>
    /\ UNCHANGED outsideStore

\* store_data, line 134 and the end of the with block: evict, unlock
store_clean(p) ==
    /\ pc[p] = "clean"
    /\ LET e == pending[p]
           d2 == clean_diagnosis_data(data, e.data_type, now)
       IN  /\ data' = d2
           /\ last' = [last EXCEPT
                  !.op = "store", !.data_type = e.data_type, !.now = now,
                  !.event = e,
                  !.appended = data[e.data_type].items,
                  !.query = get_data(d2, e.data_type).ret,
                  !.others_same =
                      \A k \in DOMAIN data \ {e.data_type} : d2[k] = data[k]]
    /\ lock' = IF lock = p THEN NoHolder ELSE lock
    /\ pc' = [pc EXCEPT ![p] = "idle"]
    /\ pending' = [pending EXCEPT ![p] = NoData]
    /\ UNCHANGED <<now, history, overflowed>>
    /\ UNCHANGED outsideStore

\* get_data: takes the lock, copies the deque, releases the lock
get_data_call(data_type) ==
    /\ can_acquire(lock)
    /\ LET r == get_data(data, data_type)
       IN  /\ data' = r.data
           /\ last' = [NoCall EXCEPT
                  !.op = "get", !.data_type = data_type, !.now = now,
                  !.known = data_type \in DOMAIN data,
                  !.before = IF data_type \in DOMAIN data
                             THEN data[data_type].items ELSE <<>>,
                  !.query = r.ret,
                  !.others_same =
                      /\ DOMAIN r.data = DOMAIN data
                      /\ \A k \in DOMAIN data : r.data[k] = data[k],
                  !.partial = \E p \in Producers : pc[p] = "clean"]
    /\ UNCHANGED <<now, lock, pc, pending, history, overflowed>>
    /\ UNCHANGED outsideStore

StoreNext ==
    \/ Tick
    \/ \E p \in Producers, k \in DataTypes, t \in Timestamps :
           store_acquire(p, k, t)
    \/ \E p \in Producers : store_append(p)
    \/ \E p \in Producers : store_clean(p)
    \/ \E k \in DataTypes : get_data_call(k)

----------------------------------------------------------------------------
(* Diagnostician *)

\* the seed start_observing registers
HangInference ==
    [name |-> "TRAINING", attribute |-> "ISORNOT", description |-> "HANG"]

\* observe_training: InferenceChain(seeds, observing operators).infer();
\* the hang operator either detects nothing or confirms the seeds
observe_training(problems) == {<<>>, problems}

\* diagnose_failure: the body is "pass", the call evaluates to None
diagnose_failure(inference) == PyNone

\* get_pre_check_operators / get_observing_operators
get_pre_check_operators == <<>>
get_observing_operators == <<"CheckTrainingHangOperator">>

\* InferenceChain(inferences, operators).infer(): the results one
\* evaluation can give; without seeds or without operators nothing is
\* produced, otherwise an operator confirms the seeds or finds nothing
infer(inferences, operators) ==
    IF inferences = <<>> \/ operators = <<>>
    THEN {<<>>}
    ELSE {<<>>, inferences}

\* check_training: the chain over the pre-checks and their operators
check_training(checks) == infer(checks, get_pre_check_operators)

\* "for root_cause in root_causes" needs an iterable
iterable(v) == v.kind = "list"

----------------------------------------------------------------------------
(* DiagnosisManager: state machine *)

Running == {"check", "observe", "diagnose", "sleep"}
Terminated == {"exited", "crashed"}

Unborn == {i \in LoopIds : loop[i] = "unborn"}

NoMgrCall == [op |-> "none", toggle |-> FALSE, was_observing |-> FALSE,
              started |-> FALSE, thread |-> 0, result |-> PyNone]

NoView == [flag |-> FALSE, seeds |-> <<>>]

CallInit ==
    /\ mgr_call = NoMgrCall
    /\ born = [i \in LoopIds |-> NoView]

\* a call on the manager, told apart from the call before it
MgrCall(op) ==
    [NoMgrCall EXCEPT !.op = op, !.toggle = ~mgr_call.toggle,
                      !.was_observing = is_observing_started]

register_problems_extend(old, problems) == old \o problems

\* Diagnostician.register_problems: the new list replaces the old one
register_problems(old, problems) == problems

register_pre_check_extend(old, checks) == old \o checks

\* Diagnostician.register_pre_check: the new list replaces the old one
register_pre_check(old, checks) == checks

start_steps_thread_first == <<"thread_start", "set_flag", "register_problems">>

\* the statements of start_observing in program order: line 66, line 75,
\* lines 78-83
start_steps == <<"set_flag", "register_problems", "thread_start">>

\* step a runs before step b
Precedes(steps, a, b) ==
    \E i, j \in 1..Len(steps) : i < j /\ steps[i] = a /\ steps[j] = b

\* start_observing: set the flag, register the seed, start a thread;
\* started = FALSE is Thread.start() raising, which the except logs;
\* born is the flag and the seeds the new thread finds when it starts
start_observing(started) ==
    /\ Unborn # {}
    /\ is_observing_started' = TRUE
    /\ training_problems' =
           register_problems(training_problems, <<HangInference>>)
    /\ LET i == CHOOSE j \in Unborn : \A k \in Unborn : j <= k
           view == [flag |->
                       IF Precedes(start_steps, "set_flag", "thread_start")
                       THEN TRUE ELSE is_observing_started,
                    seeds |->
                       IF Precedes(start_steps, "register_problems",
                                   "thread_start")
                       THEN register_problems(training_problems,
                                              <<HangInference>>)
                       ELSE training_problems]
       IN  /\ loop' = IF started THEN [loop EXCEPT ![i] = "check"] ELSE loop
           /\ born' = IF started THEN [born EXCEPT ![i] = view] ELSE born
           /\ mgr_call' = [MgrCall("start_observing") EXCEPT
                  !.started = started, !.thread = i]
    /\ UNCHANGED <<pre_checks, observed_problems, root_causes, stop_seen>>
    /\ UNCHANGED outsideMgr

stop_observing_toggle ==
    /\ is_observing_started' = ~is_observing_started
    /\ stop_seen' = [i \in LoopIds |-> stop_seen[i] \/ loop[i] \in Running]
    /\ UNCHANGED <<training_problems, pre_checks, loop, observed_problems,
                   root_causes>>
    /\ mgr_call' = MgrCall("stop_observing")
    /\ UNCHANGED born
    /\ UNCHANGED outsideMgr

\* stop_observing: clear the flag
stop_observing ==
    /\ is_observing_started' = FALSE
    /\ stop_seen' = [i \in LoopIds |-> stop_seen[i] \/ loop[i] \in Running]
    /\ UNCHANGED <<training_problems, pre_checks, loop, observed_problems,
                   root_causes>>
    /\ mgr_call' = MgrCall("stop_observing")
    /\ UNCHANGED born
    /\ UNCHANGED outsideMgr

\* _diagnose_failures, lines 98-104: poll the flag
loop_check(i) ==
    /\ loop[i] = "check"
    /\ loop' = [loop EXCEPT ![i] =
           IF ~is_observing_started THEN "exited" ELSE "observe"]
    /\ UNCHANGED <<is_observing_started, training_problems, pre_checks,
                   observed_problems, root_causes, stop_seen>>
    /\ UNCHANGED outsideLoop

\* _diagnose_failures, line 106
loop_observe(i) ==
    /\ loop[i] = "observe"
    /\ \E r \in observe_training(training_problems) :
          /\ observed_problems' = [observed_problems EXCEPT ![i] = r]
          /\ loop' = [loop EXCEPT ![i] =
                 IF r = <<>> THEN "sleep" ELSE "diagnose"]
    /\ UNCHANGED <<is_observing_started, training_problems, pre_checks,
                   root_causes, stop_seen>>
    /\ UNCHANGED outsideLoop

\* _diagnose_failures, lines 107-111: one pass of "for problem in ...";
\* iterating a value that is not iterable raises TypeError, which nothing
\* catches, so the thread ends
loop_diagnose(i) ==
    /\ loop[i] = "diagnose"
    /\ LET rc == diagnose_failure(Head(observed_problems[i]))
           rest == Tail(observed_problems[i])
       IN  /\ root_causes' = [root_causes EXCEPT ![i] = rc]
           /\ IF ~iterable(rc)
              THEN /\ loop' = [loop EXCEPT ![i] = "crashed"]
                   /\ UNCHANGED observed_problems
              ELSE /\ observed_problems' =
                          [observed_problems EXCEPT ![i] = rest]
                   /\ loop' = [loop EXCEPT ![i] =
                          IF rest = <<>> THEN "sleep" ELSE "diagnose"]
    /\ UNCHANGED <<is_observing_started, training_problems, pre_checks,
                   stop_seen>>
    /\ UNCHANGED outsideLoop

\* _diagnose_failures, lines 112-114: time.sleep returns
loop_sleep(i) ==
    /\ loop[i] = "sleep"
    /\ loop' = [loop EXCEPT ![i] = "check"]
    /\ UNCHANGED <<is_observing_started, training_problems, pre_checks,
                   observed_problems, root_causes, stop_seen>>
    /\ UNCHANGED outsideLoop

MgrNext ==
    \/ \E started \in BOOLEAN : start_observing(started)
    \/ stop_observing
    \/ \E i \in LoopIds : loop_check(i)
    \/ \E i \in LoopIds : loop_observe(i)
    \/ \E i \in LoopIds : loop_diagnose(i)
    \/ \E i \in LoopIds : loop_sleep(i)

----------------------------------------------------------------------------
(* The whole store_data handler, and the callers of get_data *)

get_data_shares_deque(d, data_type) == data_type \in DOMAIN d

\* get_data, lines 139-140: "[]" and list(deque) are new list objects;
\* TRUE would mean that the caller receives the deque the store keeps
get_data_shares(d, data_type) == FALSE

NoSnapshot == [held |-> FALSE, data_type |-> "", items |-> <<>>,
               shares |-> FALSE, mutations |-> 0, stored_after |-> FALSE]

\* something a caller puts into the list it received
CallerItem == DiagnosisData("caller", 0, 0)

Reverse(s) == [i \in 1..Len(s) |-> s[Len(s) + 1 - i]]

\* list.append / list.pop / list.reverse on the returned list
mutate(items, m) ==
    IF m = "append" THEN Append(items, CallerItem)
    ELSE IF m = "pop" THEN SubSeq(items, 1, Len(items) - 1)
    ELSE Reverse(items)

SnapInit == snapshot = NoSnapshot

\* the timestamp of an event that its producer reports as it happens
ReportedNow == {now}

\* store_data as one step: under the lock, create the deque if absent,
\* append, evict; a list that is the same object as the deque follows the
\* append and is left behind when the eviction rebuilds the deque
store_data(data_type, timestamp) ==
    /\ can_acquire(lock)
    /\ TotalStored + Cardinality(InFlight) < MaxStores
    /\ LET e == DiagnosisData(data_type, timestamp,
                              TotalStored + Cardinality(InFlight) + 1)
           d1 == ensure_key(data, data_type)
           d2 == [d1 EXCEPT ![data_type] = deque_append(@, e)]
           d3 == clean_diagnosis_data(d2, data_type, now)
           same == snapshot.held /\ snapshot.data_type = data_type
       IN  /\ data' = d3
           /\ overflowed' = overflowed \cup deque_discarded(d1[data_type])
           /\ history' = [history EXCEPT ![data_type] = Append(@, e)]
           /\ last' = [NoCall EXCEPT
                  !.op = "store", !.data_type = data_type, !.now = now,
                  !.event = e,
                  !.known = data_type \in DOMAIN data,
                  !.before = IF data_type \in DOMAIN data
                             THEN data[data_type].items ELSE <<>>,
                  !.appended = d2[data_type].items,
                  !.query = get_data(d3, data_type).ret,
                  !.others_same =
                      \A k \in DOMAIN data \ {data_type} : d3[k] = data[k]]
           /\ snapshot' =
                  IF same /\ snapshot.shares
                  THEN [snapshot EXCEPT
                           !.items = d2[data_type].items,
                           !.shares = (d3[data_type] = d2[data_type]),
                           !.stored_after = TRUE]
                  ELSE [snapshot EXCEPT !.stored_after = @ \/ same]
    /\ UNCHANGED <<now, lock, pc, pending>>
    /\ UNCHANGED <<mgrVars, born, masterVars>>

\* a caller calls get_data and keeps the list it returns
get_data_keep(data_type) ==
    /\ can_acquire(lock)
    /\ LET r == get_data(data, data_type)
       IN  /\ data' = r.data
           /\ last' = [NoCall EXCEPT
                  !.op = "get", !.data_type = data_type, !.now = now,
                  !.known = data_type \in DOMAIN data,
                  !.before = IF data_type \in DOMAIN data
                             THEN data[data_type].items ELSE <<>>,
                  !.query = r.ret,
                  !.others_same =
                      /\ DOMAIN r.data = DOMAIN data
                      /\ \A k \in DOMAIN data : r.data[k] = data[k]]
           /\ snapshot' = [NoSnapshot EXCEPT
                  !.held = TRUE, !.data_type = data_type,
                  !.items = r.ret,
                  !.shares = get_data_shares(data, data_type)]
    /\ UNCHANGED <<now, lock, pc, pending, history, overflowed>>
    /\ UNCHANGED <<mgrVars, callVars, masterVars>>

\* the caller changes the list it holds
caller_mutate(m) ==
    /\ snapshot.held
    /\ snapshot.mutations < MaxMutations
    /\ m = "pop" => snapshot.items # <<>>
    /\ LET new == mutate(snapshot.items, m)
       IN  /\ snapshot' = [snapshot EXCEPT
                  !.items = new, !.mutations = @ + 1]
           /\ data' = IF snapshot.shares
                      THEN [data EXCEPT ![snapshot.data_type].items = new]
                      ELSE data
    /\ UNCHANGED <<now, lock, pc, pending, history, overflowed, last>>
    /\ UNCHANGED <<mgrVars, callVars, masterVars>>

SnapNext ==
    \/ Tick
    \/ \E k \in DataTypes, t \in ReportedNow :
           store_data(k, t) /\ UNCHANGED mgr_call
    \/ \E k \in DataTypes : get_data_keep(k)
    \/ \E m \in {"append", "pop", "reverse"} : caller_mutate(m)

----------------------------------------------------------------------------
(* DiagnosisManager: the calls that do not touch the observing flag *)

collect_diagnosis_data_if_observing(data_type, timestamp) ==
    /\ TotalStored < MaxCollects
    /\ IF is_observing_started
       THEN /\ store_data(data_type, timestamp)
            /\ mgr_call' = MgrCall("collect_diagnosis_data")
       ELSE /\ mgr_call' = MgrCall("collect_diagnosis_data")
            /\ UNCHANGED <<storeVars, mgrVars, snapVars, born, masterVars>>

\* collect_diagnosis_data: forwards the event to store_data
collect_diagnosis_data(data_type, timestamp) ==
    /\ TotalStored < MaxCollects
    /\ store_data(data_type, timestamp)
    /\ mgr_call' = MgrCall("collect_diagnosis_data")

pre_check_registers_problems ==
    /\ training_problems' = register_problems(training_problems, <<>>)
    /\ mgr_call' = MgrCall("pre_check")
    /\ UNCHANGED <<is_observing_started, pre_checks, loop,
                   observed_problems, root_causes, stop_seen, born>>
    /\ UNCHANGED outsideMgr

\* pre_check: registers the (empty) list of pre-checks
pre_check ==
    /\ pre_checks' = register_pre_check(pre_checks, <<>>)
    /\ mgr_call' = MgrCall("pre_check")
    /\ UNCHANGED <<is_observing_started, training_problems, loop,
                   observed_problems, root_causes, stop_seen, born>>
    /\ UNCHANGED outsideMgr

\* time.time() between two calls on the manager: the clock goes from its
\* first to its last value, past the expiry period of the events stored
\* before
TickPastExpiry ==
    /\ \A t \in Timestamps : now <= t
    /\ now' = CHOOSE t \in Timestamps : \A u \in Timestamps : u <= t
    /\ UNCHANGED <<data, lock, pc, pending, history, overflowed, last>>
    /\ UNCHANGED outsideStore

\* a call of Diagnostician.check_training
check_training_call ==
    /\ \E r \in check_training(pre_checks) :
           mgr_call' = [MgrCall("check_training") EXCEPT !.result = PyList(r)]
    /\ UNCHANGED <<mgrVars, born>>
    /\ UNCHANGED outsideMgr

MgrFullNext ==
    \/ MgrNext
    \/ TickPastExpiry
    \/ \E k \in DataTypes, t \in ReportedNow : collect_diagnosis_data(k, t)
    \/ pre_check
    \/ check_training_call

----------------------------------------------------------------------------
(* Master (dlrover/python/master/master.py) *)

\* JobExitReason, and None for "no reason recorded"
SUCCEEDED == "SUCCEEDED"
UNKNOWN_ERROR == "UNKNOWN_ERROR"
NoReason == "None"

\* reasons passed to request_stop; "" is an empty reason
StopReasons == {"", "CODE_ERROR"}

\* the positions of run() inside its while loop
InLoop == {"check", "consult", "set_reason", "sleep"}
\* the positions inside the finally block of run() and inside stop()
InFinally == {"finally", "stop_test", "stop_write", "stop_report",
              "stop_server"}

NoRun == [pc |-> "check", by |-> "none", path |-> "none",
          saw |-> [exited |-> FALSE, failed |-> FALSE, finished |-> FALSE,
                   critical |-> FALSE],
          waited_on_critical |-> FALSE, log |-> <<>>, returned |-> -1,
          reason |-> NoReason, via |-> "run", reported |-> <<>>]

\* no call of request_stop so far
NoRequest == [pc |-> "idle", success |-> FALSE, reason |-> "", calls |-> 0,
              done |-> "none"]

\* Master.__init__, lines 54-76: the managers exist or not as the job
\* arguments say; nothing is stopped, exit code 0, no exit reason
MasterInit ==
    /\ master \in [node_manager : BOOLEAN, task_manager : BOOLEAN,
                   job_metric_collector : BOOLEAN,
                   stop_requested : {FALSE}, exit_code : {0},
                   exit_reason : {NoReason}]
    /\ run = NoRun
    /\ req = NoRequest

\* a master with both managers that has not started run(), for the
\* specifications in which the Master takes no step
MasterIdle ==
    /\ master = [node_manager |-> TRUE, task_manager |-> TRUE,
                 job_metric_collector |-> TRUE,
                 stop_requested |-> FALSE, exit_code |-> 0,
                 exit_reason |-> NoReason]
    /\ run = NoRun
    /\ req = NoRequest

\* "not self._exit_reason": None and "" are both false
falsy(reason) == reason = NoReason \/ reason = ""

run_decision_wait_for_tasks(m, exited, failed, finished, critical) ==
    IF m.node_manager /\ exited /\ failed THEN "workers_failed"
    ELSE IF m.node_manager /\ exited /\ ~(m.task_manager /\ ~finished)
         THEN "workers_exited"
    ELSE IF m.task_manager /\ finished /\ (~m.node_manager \/ critical)
         THEN "tasks_completed"
    ELSE "sleep"

run_decision_ignore_critical(m, exited, failed, finished, critical) ==
    IF m.node_manager /\ exited
    THEN IF failed THEN "workers_failed" ELSE "workers_exited"
    ELSE IF m.task_manager /\ finished THEN "tasks_completed"
    ELSE "sleep"

\* Master.run, lines 137-165: what a pass of the while loop does once the
\* stop flag was read False, given what all_workers_exited,
\* all_workers_failed, finished and all_critical_node_completed answer
run_decision(m, exited, failed, finished, critical) ==
    IF m.node_manager /\ exited
    THEN IF failed THEN "workers_failed" ELSE "workers_exited"
    ELSE IF m.task_manager /\ finished /\ (~m.node_manager \/ critical)
         THEN "tasks_completed"
    ELSE "sleep"

stop_test_ignores_code(m) == falsy(m.exit_reason)

\* Master.stop, line 180: "self._exit_code == 0 and not self._exit_reason"
stop_test(m) == m.exit_code = 0 /\ falsy(m.exit_reason)

node_manager_stop_skipped(m, log) == log

\* Master.run, lines 169-170: node_manager.stop() if there is a node
\* manager; log is the sequence of components stopped so far
node_manager_stop(m, log) ==
    IF m.node_manager THEN Append(log, "node_manager.stop") ELSE log

\* Master.run, lines 135-136: the pass reads the stop flag
run_check_stop ==
    /\ run.pc = "check"
    /\ run' = IF master.stop_requested
              THEN [run EXCEPT !.pc = "finally", !.by = "check",
                               !.path = "stop_requested"]
              ELSE [run EXCEPT !.pc = "consult", !.by = "check"]
    /\ UNCHANGED <<master, req>>
    /\ UNCHANGED outsideMaster

\* Master.run, lines 137-165: the rest of the pass; when all workers
\* failed it writes the exit code (line 146)
run_iteration(exited, failed, finished, critical) ==
    /\ run.pc = "consult"
    /\ LET path == run_decision(master, exited, failed, finished, critical)
       IN  /\ master' = IF path = "workers_failed"
                        THEN [master EXCEPT !.exit_code = 1]
                        ELSE master
           /\ run' = [run EXCEPT
                  !.pc = CASE path = "sleep" -> "sleep"
                           [] path = "workers_failed" -> "set_reason"
                           [] OTHER -> "finally",
                  !.by = "iteration",
                  !.path = path,
                  !.saw = [exited |-> exited, failed |-> failed,
                           finished |-> finished, critical |-> critical],
                  !.waited_on_critical =
                      @ \/ (path = "sleep" /\ master.task_manager
                            /\ finished /\ ~critical)]
    /\ UNCHANGED req
    /\ UNCHANGED outsideMaster

\* Master.run, lines 147-148: all workers failed, the exit reason is
\* written and the loop is left
run_set_reason ==
    /\ run.pc = "set_reason"
    /\ master' = [master EXCEPT !.exit_reason = UNKNOWN_ERROR]
    /\ run' = [run EXCEPT !.pc = "finally", !.by = "set_reason"]
    /\ UNCHANGED req
    /\ UNCHANGED outsideMaster

\* Master.run, line 165: time.sleep(30) returns
run_sleep ==
    /\ run.pc = "sleep"
    /\ run' = [run EXCEPT !.pc = "check", !.by = "sleep"]
    /\ UNCHANGED <<master, req>>
    /\ UNCHANGED outsideMaster

\* Master.run, lines 166-167: KeyboardInterrupt inside the loop
keyboard_interrupt ==
    /\ run.pc \in InLoop
    /\ run' = [run EXCEPT !.pc = "finally", !.by = "interrupt",
                          !.path = "keyboard_interrupt"]
    /\ UNCHANGED <<master, req>>
    /\ UNCHANGED outsideMaster

\* Master.run, lines 168-170: the finally block stops the node manager
run_finally ==
    /\ run.pc = "finally"
    /\ run' = [run EXCEPT !.pc = "stop_test", !.by = "finally",
                          !.log = node_manager_stop(master, @)]
    /\ UNCHANGED <<master, req>>
    /\ UNCHANGED outsideMaster

\* Master.stop called by its owner instead of run()
stop ==
    /\ run.pc = "check"
    /\ run.by = "none"
    /\ run' = [run EXCEPT !.pc = "stop_test", !.by = "stop",
                          !.via = "stop", !.path = "stop"]
    /\ UNCHANGED <<master, req>>
    /\ UNCHANGED outsideMaster

\* Master.stop, line 180: the test of the exit code and the exit reason
stop_check_reason ==
    /\ run.pc = "stop_test"
    /\ run' = [run EXCEPT
           !.pc = IF stop_test(master) THEN "stop_write" ELSE "stop_report",
           !.by = "stop_test",
           !.log = Append(@, "Master.stop")]
    /\ UNCHANGED <<master, req>>
    /\ UNCHANGED outsideMaster

\* Master.stop, line 181: the exit reason becomes SUCCEEDED
stop_write_reason ==
    /\ run.pc = "stop_write"
    /\ master' = [master EXCEPT !.exit_reason = SUCCEEDED]
    /\ run' = [run EXCEPT !.pc = "stop_report", !.by = "stop_write"]
    /\ UNCHANGED req
    /\ UNCHANGED outsideMaster

\* Master.stop, lines 182-186: the exit reason is reported when there is
\* a metric collector
stop_report ==
    /\ run.pc = "stop_report"
    /\ run' = [run EXCEPT
           !.pc = "stop_server", !.by = "stop_report",
           !.reported = IF master.job_metric_collector
                        THEN Append(@, master.exit_reason) ELSE @]
    /\ UNCHANGED <<master, req>>
    /\ UNCHANGED outsideMaster

\* Master.stop, lines 187-191: the RPC server is stopped; stop() returns
\* to run() or to its caller
stop_server ==
    /\ run.pc = "stop_server"
    /\ run' = [run EXCEPT
           !.pc = IF run.via = "run" THEN "return" ELSE "stopped",
           !.by = "stop_server",
           !.log = Append(@, "master_server.stop")]
    /\ UNCHANGED <<master, req>>
    /\ UNCHANGED outsideMaster

\* KeyboardInterrupt outside the try block of run(): in the finally
\* block, in stop() or before the return; nothing catches it
keyboard_interrupt_uncaught ==
    /\ run.pc \in InFinally \cup {"return"}
    /\ run' = [run EXCEPT !.pc = "raised", !.by = "interrupt"]
    /\ UNCHANGED <<master, req>>
    /\ UNCHANGED outsideMaster

\* Master.run, line 173: return self._exit_code
run_return ==
    /\ run.pc = "return"
    /\ run' = [run EXCEPT !.pc = "returned", !.by = "return",
                          !.returned = master.exit_code,
                          !.reason = master.exit_reason]
    /\ UNCHANGED <<master, req>>
    /\ UNCHANGED outsideMaster

\* Master.request_stop, line 194, called from another thread while run()
\* is going: the stop flag is written first
request_stop(success, reason) ==
    /\ req.pc = "idle"
    /\ req.calls < MaxRequests
    /\ run.pc \notin {"returned", "raised", "stopped"}
    /\ master' = [master EXCEPT !.stop_requested = TRUE]
    /\ req' = [pc |-> "reason", success |-> success, reason |-> reason,
               calls |-> req.calls + 1, done |-> "none"]
    /\ UNCHANGED run
    /\ UNCHANGED outsideMaster

\* Master.request_stop, line 195
request_stop_reason ==
    /\ req.pc = "reason"
    /\ master' = [master EXCEPT !.exit_reason = req.reason]
    /\ req' = [req EXCEPT !.pc = "code"]
    /\ UNCHANGED run
    /\ UNCHANGED outsideMaster

\* Master.request_stop, lines 196-201; done is where run() stands when
\* the call returns
request_stop_code ==
    /\ req.pc = "code"
    /\ master' = [master EXCEPT
           !.exit_code = IF req.success THEN 0 ELSE 1]
    /\ req' = [req EXCEPT !.pc = "idle", !.done = run.pc]
    /\ UNCHANGED run
    /\ UNCHANGED outsideMaster

MasterNext ==
    \/ run_check_stop
    \/ \E exited, failed, finished, critical \in BOOLEAN :
           run_iteration(exited, failed, finished, critical)
    \/ run_set_reason
    \/ run_sleep
    \/ keyboard_interrupt
    \/ run_finally
    \/ stop
    \/ stop_check_reason
    \/ stop_write_reason
    \/ stop_report
    \/ stop_server
    \/ keyboard_interrupt_uncaught
    \/ run_return
    \/ \E success \in BOOLEAN, reason \in StopReasons :
           request_stop(success, reason)
    \/ request_stop_reason
    \/ request_stop_code

----------------------------------------------------------------------------
(* Specifications *)

Init == StoreInit /\ MgrIdle /\ SnapInit /\ CallInit /\ MasterIdle

InitMaster == StoreInit /\ MgrIdle /\ SnapInit /\ CallInit /\ MasterInit

Next == StoreNext

Spec == Init /\ [][Next]_vars

SpecMgr == Init /\ [][MgrNext]_vars

SpecSnap == Init /\ [][SnapNext]_vars

SpecMgrFull == Init /\ [][MgrFullNext]_vars

SpecMaster == InitMaster /\ [][MasterNext]_vars

----------------------------------------------------------------------------
(* Helpers for the properties *)

Range(s) == {s[i] : i \in 1..Len(s)}

StrictlyIncreasing(s) ==
    \A i \in 1..(Len(s) - 1) : s[i].timestamp < s[i + 1].timestamp

Stale(e, t) == e.timestamp + ExpireTimePeriod < t

LastN(s, n) == SubSeq(s, Len(s) - n + 1, Len(s))

Items(k) == IF k \in DOMAIN data THEN data[k].items ELSE <<>>

----------------------------------------------------------------------------
(* Properties of the data store, checked under Spec *)

\* C1: no data_type's sequence is ever longer than the capacity ceiling,
\* and an append to a full sequence drops its oldest entry.
CapacityNeverExceeded ==
    /\ \A k \in DOMAIN data : Len(data[k].items) <= MaxLen
    /\ (last.op = "store" /\ Len(last.before) >= MaxLen)
           => last.appended = Append(Tail(last.before), last.event)

\* C2: get_data never returns an event that is stale at the time of the
\* query.
QueryReturnsNoStaleEvent ==
    last.op = "get" => \A e \in Range(last.query) : ~Stale(e, last.now)

\* C3 as stated: with strictly increasing timestamps, right after a
\* store_data at time now, get_data holds no stale prior event and holds
\* every event ever stored whose timestamp + W >= now.
StalenessEvictionAllStored ==
    (last.op = "store" /\ StrictlyIncreasing(history[last.data_type]))
        => /\ \A e \in Range(last.query) :
                  e.id # last.event.id => ~Stale(e, last.now)
           /\ \A e \in Range(history[last.data_type]) :
                  ~Stale(e, last.now) => e \in Range(last.query)

\* C3 amended: with strictly increasing timestamps, right after a
\* store_data at time now, get_data holds no stale prior event and holds
\* every stored event whose timestamp + W >= now, except the events the
\* capacity ceiling discarded.
StalenessEvictionRetained ==
    (last.op = "store" /\ StrictlyIncreasing(history[last.data_type]))
        => /\ \A e \in Range(last.query) :
                  e.id # last.event.id => ~Stale(e, last.now)
           /\ \A e \in Range(history[last.data_type]) :
                  (~Stale(e, last.now) /\ e.id \notin overflowed)
                      => e \in Range(last.query)

\* a store that found a stale prior event and a prior event that is not
\* stale in the sequence, evicted the first and kept the second
StalenessEvictionWitness ==
    /\ last.op = "store"
    /\ StrictlyIncreasing(history[last.data_type])
    /\ \E e \in Range(last.appended) :
           /\ e.id # last.event.id
           /\ Stale(e, last.now)
           /\ e \notin Range(last.query)
    /\ \E e \in Range(last.query) :
           e.id # last.event.id /\ ~Stale(e, last.now)

\* C8: after more than capacity stores of one data_type with strictly
\* increasing timestamps, get_data returns exactly the capacity most
\* recently stored events, in insertion order (stated for the stores whose
\* capacity most recent events are not stale).
BoundedRetention ==
    LET h == history[last.data_type]
    IN  (/\ last.op = "store"
         /\ Len(h) > MaxLen
         /\ StrictlyIncreasing(h)
         /\ \A e \in Range(LastN(h, MaxLen)) : ~Stale(e, last.now))
            => last.query = LastN(h, MaxLen)

\* C9: append and eviction of one store_data are one atomic step: stores
\* exclude each other, no get_data sees an appended but not yet evicted
\* sequence, and an event leaves a sequence only by capacity or staleness.
StoreIsAtomic ==
    /\ Cardinality(InFlight) <= 1
    /\ \A p \in Producers : pc[p] # "idle" => lock = p
    /\ last.op = "get" => ~last.partial
    /\ \A k \in DataTypes : \A e \in Range(history[k]) :
           \/ e \in Range(Items(k))
           \/ e.id \in overflowed
           \/ Stale(e, now)

\* a producer holds the lock between its append and its eviction, with a
\* stale entry still at the front, after an earlier store completed
StoreIsAtomicWitness ==
    \E p \in Producers :
        /\ pc[p] = "clean"
        /\ lock = p
        /\ Len(data[pending[p].data_type].items) >= 2
        /\ stale_prefix_len(data[pending[p].data_type].items,
                            ExpireTimePeriod, now) > 0

\* C10: get_data of a data_type never stored returns an empty sequence,
\* creates no sequence for it and leaves the other sequences as they were.
UnknownTypeQuery ==
    (last.op = "get" /\ ~last.known)
        => /\ last.query = <<>>
           /\ last.data_type \notin DOMAIN data
           /\ last.others_same

\* a query for a type never stored while another type holds events
UnknownTypeQueryWitness ==
    /\ last.op = "get"
    /\ ~last.known
    /\ history[last.data_type] = <<>>
    /\ \E k \in DOMAIN data : data[k].items # <<>>

\* C18: the retained sequence of every data_type is a contiguous suffix
\* of the events ever stored under that type, in the order in which the
\* stores took the lock.
RetainedIsSuffixOfStored ==
    \A k \in DataTypes :
        \E n \in 0..Len(history[k]) :
            Items(k) = SubSeq(history[k], n + 1, Len(history[k]))

\* a type whose sequence holds two events and has lost an older one
RetainedIsSuffixWitness ==
    \E k \in DataTypes :
        /\ Len(Items(k)) >= 2
        /\ Len(history[k]) > Len(Items(k))
        /\ lock = NoHolder

\* the longest prefix of s made of events that are stale at time t
MaximalStalePrefix(s, t) ==
    CHOOSE n \in 0..Len(s) :
        /\ \A i \in 1..n : Stale(s[i], t)
        /\ n < Len(s) => ~Stale(s[n + 1], t)

\* C19: the eviction of store_data(event) removes exactly the maximal
\* stale prefix of the sequence of event.data_type, and leaves the
\* sequences of the other data_types as they were.
EvictsMaximalStalePrefix ==
    last.op = "store"
        => /\ last.query =
                  SubSeq(last.appended,
                         MaximalStalePrefix(last.appended, last.now) + 1,
                         Len(last.appended))
           /\ last.others_same

\* a store that removed a stale prefix and kept a stale event lying
\* behind an event that is not stale
EvictsMaximalStalePrefixWitness ==
    /\ last.op = "store"
    /\ Len(last.query) < Len(last.appended)
    /\ \E i, j \in 1..Len(last.query) :
           /\ i < j
           /\ ~Stale(last.query[i], last.now)
           /\ Stale(last.query[j], last.now)

----------------------------------------------------------------------------
(* Properties of the manager, checked under SpecMgr *)

\* C4: at most one _diagnose_failures loop is running at any time.
AtMostOneLoop ==
    Cardinality({i \in LoopIds : loop[i] \in Running}) <= 1

\* C5: a loop ends only by reading the stop flag as false; no exception
\* inside an iteration ends it.
LoopEndsOnlyByFlag ==
    [][\A i \in LoopIds :
          (loop[i] \in Running /\ loop'[i] \in Terminated)
              => (loop[i] = "check" /\ ~is_observing_started
                  /\ loop'[i] = "exited")]_vars

\* C6: diagnose_failure returns a sequence the caller can iterate over.
DiagnoseFailureReturnsSequence ==
    \A i \in LoopIds : iterable(root_causes[i])

\* C7: a loop that was running when stop_observing was called exits at its
\* next check of the flag, whatever is called on the manager afterwards.
StoppedLoopExitsAtNextCheck ==
    [][\A i \in LoopIds :
          (stop_seen[i] /\ loop[i] = "check" /\ loop'[i] # loop[i])
              => loop'[i] = "exited"]_vars

----------------------------------------------------------------------------
(* Properties of the returned lists, checked under SpecSnap *)

\* C11: the list returned by get_data is independent of the store: a
\* change the caller makes to it leaves the store (and so every later
\* get_data) as it was, and a later store_data leaves the list as it was.
SnapshotIsIndependent ==
    [][/\ (snapshot.held /\ snapshot'.mutations > snapshot.mutations)
              => data' = data
       /\ (snapshot.held /\ history' # history)
              => snapshot'.items = snapshot.items]_vars

\* a list of a stored type that the caller changed and that a later
\* store_data of the same type left behind
SnapshotWitness ==
    /\ snapshot.held
    /\ snapshot.mutations > 0
    /\ snapshot.stored_after
    /\ snapshot.data_type \in DOMAIN data
    /\ snapshot.items # data[snapshot.data_type].items

----------------------------------------------------------------------------
(* Properties of the manager's calls, checked under SpecMgrFull *)

\* the step is a call op on the manager
Called(op) == mgr_call'.toggle # mgr_call.toggle /\ mgr_call'.op = op

RunningLoops == {i \in LoopIds : loop[i] \in Running}

\* C12: stop_observing on an idle manager changes nothing: the flag stays
\* false, no loop is spawned, the seed sets and the data store are as
\* before; a second stop_observing has no further effect.
StopWhenIdleIsNoOp ==
    [][(Called("stop_observing") /\ ~is_observing_started)
          => /\ is_observing_started' = FALSE
             /\ loop' = loop
             /\ training_problems' = training_problems
             /\ pre_checks' = pre_checks
             /\ data' = data
             /\ history' = history]_vars

\* stop_observing called on a manager that was started and stopped
\* before, with events in the store
StopWhenIdleWitness ==
    /\ mgr_call.op = "stop_observing"
    /\ ~mgr_call.was_observing
    /\ \E i \in LoopIds : loop[i] # "unborn"
    /\ training_problems # <<>>
    /\ TotalStored > 0

\* C13: collect_diagnosis_data stores the event under its data_type with
\* the same effect whether the manager is idle or observing, and changes
\* neither the flag, nor the seed sets, nor the running loops.
CollectInEitherState ==
    [][Called("collect_diagnosis_data")
          => /\ is_observing_started' = is_observing_started
             /\ training_problems' = training_problems
             /\ pre_checks' = pre_checks
             /\ loop' = loop
             /\ last'.op = "store"
             /\ LET k == last'.data_type
                    e == last'.event
                    appended ==
                        [ensure_key(data, k) EXCEPT ![k] = deque_append(@, e)]
                IN  /\ history' = [history EXCEPT ![k] = Append(@, e)]
                    /\ data' = clean_diagnosis_data(appended, k, now)]_vars

\* an event collected by a manager that is idle again after observing,
\* on top of an event collected earlier
CollectWitness ==
    /\ mgr_call.op = "collect_diagnosis_data"
    /\ ~mgr_call.was_observing
    /\ \E i \in LoopIds : loop[i] = "exited"
    /\ last.op = "store"
    /\ Len(history[last.data_type]) >= 2

\* C14: when the thread cannot be started, start_observing on an idle
\* manager leaves no loop running and the observing flag false.
SpawnFailureLeavesIdle ==
    [][(Called("start_observing") /\ ~mgr_call'.started
            /\ ~is_observing_started)
          => /\ is_observing_started' = FALSE
             /\ loop' = loop]_vars

\* C17: pre_check registers an empty pre-check seed set and leaves the
\* flag, the training seeds, the data store and the loops alone, in
\* either state; check_training returns an empty result.
PreCheckIsIndependent ==
    [][/\ Called("pre_check")
             => /\ pre_checks' = <<>>
                /\ is_observing_started' = is_observing_started
                /\ training_problems' = training_problems
                /\ loop' = loop
                /\ data' = data
                /\ history' = history
       /\ Called("check_training")
             => mgr_call'.result = PyList(<<>>)]_vars

\* pre_check called while a loop is observing, with a seed registered and
\* an event in the store
PreCheckWitness ==
    /\ mgr_call.op = "pre_check"
    /\ mgr_call.was_observing
    /\ RunningLoops # {}
    /\ training_problems = <<HangInference>>
    /\ TotalStored > 0

\* C20: start_observing on an idle manager sets the flag, replaces the
\* training seeds by the single hang Inference, leaves the pre-check
\* seeds and the data store alone, and the thread it starts finds the
\* flag set and the seed registered.
StartObservingFromIdle ==
    [][(Called("start_observing") /\ ~is_observing_started)
          => /\ is_observing_started' = TRUE
             /\ training_problems' = <<HangInference>>
             /\ pre_checks' = pre_checks
             /\ data' = data
             /\ history' = history
             /\ mgr_call'.started
                   => /\ loop'[mgr_call'.thread] = "check"
                      /\ born'[mgr_call'.thread] =
                             [flag |-> TRUE, seeds |-> <<HangInference>>]]_vars

\* a second start on a manager that is idle again, with the old seed
\* still registered and an event in the store, that started a thread
StartObservingWitness ==
    /\ mgr_call.op = "start_observing"
    /\ ~mgr_call.was_observing
    /\ mgr_call.started
    /\ mgr_call.thread > 1
    /\ loop[mgr_call.thread] = "check"
    /\ TotalStored > 0

----------------------------------------------------------------------------
(* Properties of Master.run, checked under SpecMaster *)

\* the step is a pass of the loop of run() consulting the managers
Iterates == run.pc = "consult" /\ run'.by = "iteration"

\* the step is the return of run()
Returns == run.pc = "return" /\ run'.pc = "returned"

\* C15: with no stop requested, a pass in which the node manager reports
\* all workers exited and not all failed leaves the loop, whatever the
\* task manager reports, and run() then returns 0 with reason SUCCEEDED.
ExitByWorkers ==
    [][/\ (Iterates /\ ~master.stop_requested /\ master.node_manager
              /\ run'.saw.exited /\ ~run'.saw.failed)
             => (run'.pc = "finally" /\ run'.path = "workers_exited")
       /\ (Returns /\ run.path = "workers_exited" /\ ~master.stop_requested)
             => /\ run'.returned = 0
                /\ master'.exit_code = 0
                /\ master'.exit_reason = SUCCEEDED]_vars

\* run() returned after all workers exited while tasks were unfinished
ExitByWorkersWitness ==
    /\ run.pc = "returned"
    /\ run.path = "workers_exited"
    /\ ~master.stop_requested
    /\ master.task_manager
    /\ ~run.saw.finished
    /\ run.returned = 0

\* C16: with no stop requested and the workers not all exited, a pass in
\* which the task manager reports finished leaves the loop if there is no
\* node manager or all critical nodes completed, and run() then returns 0
\* with reason SUCCEEDED; if a critical node has not completed, the pass
\* goes on to sleep.
ExitByTasks ==
    [][/\ (Iterates /\ ~master.stop_requested
              /\ ~(master.node_manager /\ run'.saw.exited)
              /\ master.task_manager /\ run'.saw.finished)
             => IF ~master.node_manager \/ run'.saw.critical
                THEN run'.pc = "finally" /\ run'.path = "tasks_completed"
                ELSE run'.pc = "sleep"
       /\ (Returns /\ run.path = "tasks_completed" /\ ~master.stop_requested)
             => /\ run'.returned = 0
                /\ master'.exit_code = 0
                /\ master'.exit_reason = SUCCEEDED]_vars

\* run() returned on finished tasks, with a node manager, after a pass
\* that had to wait for a critical node
ExitByTasksWitness ==
    /\ run.pc = "returned"
    /\ run.path = "tasks_completed"
    /\ ~master.stop_requested
    /\ master.node_manager
    /\ run.saw.critical
    /\ run.waited_on_critical
    /\ master.exit_reason = SUCCEEDED

\* the step is the write of line 181 in Master.stop()
WritesSucceeded == run.pc = "stop_write" /\ run'.by = "stop_write"

\* C21: with no stop requested, a pass in which the node manager reports
\* all workers exited and all failed leaves the loop with exit code 1, and
\* run() then returns 1 with reason UNKNOWN_ERROR; stop() writes the
\* reason SUCCEEDED only over no reason and only when the exit code
\* is 0.
ExitByFailedWorkers ==
    [][/\ (Iterates /\ ~master.stop_requested /\ master.node_manager
              /\ run'.saw.exited /\ run'.saw.failed)
             => /\ run'.path = "workers_failed"
                /\ run'.pc \notin {"check", "consult", "sleep"}
                /\ master'.exit_code = 1
       /\ (Returns /\ run.path = "workers_failed" /\ ~master.stop_requested)
             => /\ run'.returned = 1
                /\ run'.reason = UNKNOWN_ERROR
                /\ master'.exit_reason = UNKNOWN_ERROR
       /\ (WritesSucceeded /\ ~master.stop_requested)
             => /\ master.exit_code = 0
                /\ master.exit_reason \in {NoReason, ""}
                /\ master'.exit_reason = SUCCEEDED
       /\ (~master.stop_requested /\ master'.exit_reason = SUCCEEDED
              /\ master.exit_reason # SUCCEEDED)
             => WritesSucceeded]_vars

\* run() returned 1 after all workers failed, through stop(), with the
\* tasks finished and no stop requested
ExitByFailedWorkersWitness ==
    /\ run.pc = "returned"
    /\ run.path = "workers_failed"
    /\ ~master.stop_requested
    /\ run.saw.finished
    /\ run.returned = 1
    /\ run.reason = UNKNOWN_ERROR
    /\ \E i \in 1..Len(run.log) : run.log[i] = "Master.stop"

\* C22: when one call request_stop(success, reason) was made and returned
\* while run() was in its loop, run() returns 0 if success was true and 1
\* otherwise, whatever the node manager reports, and the exit reason is
\* the requested one unless that one is empty.
StopRequestDecidesExit ==
    (run.pc = "returned" /\ req.calls = 1 /\ req.done \in InLoop)
        => /\ run.returned = IF req.success THEN 0 ELSE 1
           /\ req.reason # "" => run.reason = req.reason

\* s is an initial part of t
IsPrefix(s, t) == Len(s) <= Len(t) /\ s = SubSeq(t, 1, Len(s))

\* C23: whichever way run() leaves its loop (stop requested, workers
\* exited, tasks completed, KeyboardInterrupt), nothing is stopped before
\* the loop is left; after that the node manager, if there is one, is
\* stopped first, then Master.stop() runs, once, and stops the RPC
\* server; when run() returns the exit code all of that has happened.
StopsInOrderOnExit ==
    LET all == IF master.node_manager
               THEN <<"node_manager.stop", "Master.stop",
                      "master_server.stop">>
               ELSE <<"Master.stop", "master_server.stop">>
    IN  /\ run.pc \in InLoop \cup {"finally"} => run.log = <<>>
        /\ run.via = "run" => IsPrefix(run.log, all)
        /\ run.pc \in {"return", "returned"}
              => /\ run.path \in {"stop_requested", "workers_exited",
                                  "workers_failed", "tasks_completed",
                                  "keyboard_interrupt"}
                 /\ run.log = all
        /\ run.pc = "returned" <=> run.returned \in {0, 1}

\* run() returned after a KeyboardInterrupt in its loop, with a node
\* manager, having stopped everything
StopsInOrderWitness ==
    /\ run.pc = "returned"
    /\ run.path = "keyboard_interrupt"
    /\ master.node_manager
    /\ Len(run.log) = 3

====
